---- MODULE Spec2Model ----
(***************************************************************************)
(* Model of the course / chat state of the homework-assistant frontend:    *)
(* DashboardPage (course selection) and ChatPanel (draft, message log,     *)
(* loading flag, /api/chat requests in flight).                            *)
(*                                                                         *)
(* A text is a sequence of symbols.  A draft typed by the user is a        *)
(* sequence over Chars; each fixed string of the program is one symbol     *)
(* holding the whole string.                                               *)
(***************************************************************************)
EXTENDS Integers, Sequences, FiniteSets, TLC

VARIABLES
  selectedCourseId,  \* DashboardPage useState(COURSES[0].id)
  draft,             \* ChatPanel useState("")
  messages,          \* ChatPanel useState([seed])
  isLoading,         \* ChatPanel useState(false)
  pending,           \* /api/chat requests issued by fetch and not yet settled
  fetches,           \* number of fetch calls issued to /api/chat
  sends,             \* number of submits that passed the guard of handleSend
  now,               \* the value Date.now() returns
  event,             \* the handler that ran last, with what it was given
  selectedDocuments, \* DashboardPage useState([])
  sessionStorage,    \* the entries of window.sessionStorage
  location,          \* the route shown, after the redirects of App
  email,             \* LoginPage useState("")
  password,          \* LoginPage useState("")
  error,             \* LoginPage useState("")
  topic,             \* GeneratePanel useState("")
  studyGuide,        \* GeneratePanel useState("")
  practiceExam,      \* GeneratePanel useState("")
  loadingGuide,      \* GeneratePanel useState(false)
  loadingExam,       \* GeneratePanel useState(false)
  genPending,        \* generation requests issued and not yet settled
  prompts,           \* WeeklyReviewPanel useState([])
  fullText,          \* WeeklyReviewPanel useState("")
  reviewLoading,     \* WeeklyReviewPanel useState(false), `loading`
  reviewPending,     \* number of /api/weekly-review requests not yet settled
  mistakes,          \* MistakesPanel useState([])
  mistakesLoading,   \* MistakesPanel useState(true), `loading`
  filterCourse,      \* MistakesPanel useState("")
  listRequests,      \* GET /api/mistakes requests not yet settled
  deleteRequests,    \* DELETE /api/mistakes/<id> requests not yet settled
  plan,              \* StudyPlanPanel useState(null)
  editing,           \* StudyPlanPanel useState("")
  planLoading,       \* StudyPlanPanel useState(true), `loading`
  saving,            \* StudyPlanPanel useState(false)
  planMount,         \* which mounting of StudyPlanPanel is on the page
  planLoads,         \* GET /api/study-plan requests not yet settled
  planSaves,         \* POST /api/study-plan requests not yet settled
  serverPlan,        \* the plan the store behind /api/study-plan holds
  panelKind,         \* which FileUploadPanel is on the page
  files,             \* FileUploadPanel useState([]), `files` / `uploadedFiles`
  uploading,         \* FileUploadPanel useState(false)
  fileError,         \* FileUploadPanel `error`, empty for null and for ""
  fileSuccess,       \* FileUploadPanel useState(""), `success`
  batch,             \* the selected files not yet uploaded, the first in flight
  batchLog,          \* the list at the last selection and the names assigned
  uploadFetches,     \* POST /api/upload requests not yet settled
  listFetches,       \* list requests not yet settled
  deleteFetches,     \* DELETE /api/files/<filename> requests not yet settled
  serverFiles,       \* the files the store behind /api/upload holds
  nextName           \* the filename the store assigns next

vars == <<selectedCourseId, draft, messages, isLoading, pending, fetches,
          sends, now, event>>

chatState == <<selectedCourseId, draft, messages, isLoading, pending, fetches,
               sends, now>>

authVars == <<sessionStorage, location, email, password, error>>

genVars == <<topic, studyGuide, practiceExam, loadingGuide, loadingExam,
             genPending, prompts, fullText, reviewLoading, reviewPending>>

mistakeVars == <<mistakes, mistakesLoading, filterCourse, listRequests,
                 deleteRequests>>

planVars == <<plan, editing, planLoading, saving, planMount, planLoads,
              planSaves, serverPlan>>

fileVars == <<panelKind, files, uploading, fileError, fileSuccess, batch,
              batchLog, uploadFetches, listFetches, deleteFetches,
              serverFiles, nextName>>

pageVars == <<selectedDocuments>>

allVars ==
  <<vars, pageVars, authVars, genVars, mistakeVars, planVars, fileVars>>

\* what a step of one component leaves alone
notChat ==
  <<pageVars, authVars, genVars, mistakeVars, planVars, fileVars>>

notAuth ==
  <<pageVars, chatState, genVars, mistakeVars, planVars, fileVars>>

notGen ==
  <<pageVars, chatState, authVars, mistakeVars, planVars, fileVars>>

notMistakes ==
  <<pageVars, chatState, authVars, genVars, planVars, fileVars>>

notPlan ==
  <<pageVars, chatState, authVars, genVars, mistakeVars, fileVars>>

notFiles ==
  <<pageVars, chatState, authVars, genVars, mistakeVars, planVars>>

----------------------------------------------------------------------------
(* Bounds *)

MaxSends == 2        \* accepted submits in one behaviour
MaxTicks == 1        \* advances of the clock in one behaviour
StartClock == 10     \* Date.now() when the page is mounted
MaxListRequests == 2 \* GET /api/mistakes requests in flight at once
MaxDeletes == 2      \* DELETE requests in flight at once
MaxMounts == 2       \* mountings of StudyPlanPanel in one behaviour
MaxUploads == 2      \* uploads the file store accepts in one behaviour
MaxFileDeletes == 1  \* DELETE and list requests in flight with a new DELETE

----------------------------------------------------------------------------
(* Data *)

COURSES ==
  << [id |-> "mech-101", name |-> "Mechatronics", code |-> "MECH 101"],
     [id |-> "calc-101", name |-> "Calculus 1", code |-> "MATH 101"],
     [id |-> "ml-200", name |-> "Machine Learning", code |-> "CS 200"],
     [id |-> "dl-250", name |-> "Deep Learning", code |-> "CS 250"] >>

CourseIds == {COURSES[i].id : i \in 1..Len(COURSES)}

WhiteSpace == {" ", "\t", "\n"}

Chars == {" ", "\t", "a"}

Drafts == { <<>>, <<" ">>, <<"a">>, <<" ", "a", "\t">> }

GreetingText ==
  <<"Hi! I am your AI homework helper. Ask me anything about your course material.">>

FallbackText ==
  <<"Sorry, I encountered an error. Please make sure the backend server is running and try again.">>

\* bodies of the `response` field a 2xx reply of /api/chat carries
Replies == {<<"answer">>, <<>>}

SeedMessage == [id |-> 1, sender |-> "assistant", text |-> GreetingText]

\* String.prototype.trim
RECURSIVE TrimStart(_)
TrimStart(s) ==
  IF s = <<>> THEN s
  ELSE IF Head(s) \in WhiteSpace THEN TrimStart(Tail(s)) ELSE s

RECURSIVE TrimEnd(_)
TrimEnd(s) ==
  IF s = <<>> THEN s
  ELSE IF s[Len(s)] \in WhiteSpace THEN TrimEnd(SubSeq(s, 1, Len(s) - 1)) ELSE s

\* variant: the draft is submitted untrimmed
TrimNone(s) == s

Trim(s) == TrimEnd(TrimStart(s))

\* variant: no fallback when find returns undefined
SelectedCourseNoFallback(cid) ==
  IF \E i \in 1..Len(COURSES) : COURSES[i].id = cid
  THEN COURSES[CHOOSE i \in 1..Len(COURSES) : COURSES[i].id = cid]
  ELSE [id |-> "undefined", name |-> "undefined", code |-> "undefined"]

\* COURSES.find((course) => course.id === selectedCourseId) ?? COURSES[0]
SelectedCourseOf(cid) ==
  IF \E i \in 1..Len(COURSES) : COURSES[i].id = cid
  THEN COURSES[CHOOSE i \in 1..Len(COURSES) :
                 /\ COURSES[i].id = cid
                 /\ \A j \in 1..(i - 1) : COURSES[j].id # cid]
  ELSE COURSES[1]

selectedCourse == SelectedCourseOf(selectedCourseId)

\* what the last handler was given: the course_name of the request it
\* settled (NoCourse otherwise) and the response field of the reply
NoCourse == ""

Ev(kind, course, reply) == [kind |-> kind, course |-> course, reply |-> reply]

----------------------------------------------------------------------------
(* ChatPanel *)

\* msg.sender === "student" ? "user" : "assistant"
RoleOf(sender) == IF sender = "student" THEN "user" ELSE "assistant"

HistoryEntry(msg) == [role |-> RoleOf(msg.sender), content |-> msg.text]

RECURSIVE MapHistory(_)
MapHistory(log) ==
  IF log = <<>> THEN <<>>
  ELSE <<HistoryEntry(Head(log))>> \o MapHistory(Tail(log))

\* variant: the greeting is recognised by its sender
KeepStudentOnly(msg) == msg.sender # "assistant"

KeepMessage(msg) == msg.id # 1

\* messages.filter(msg => msg.id !== 1).map(...); push({role: "user", ...})
ConversationHistory(log, cleanDraft) ==
  Append(MapHistory(SelectSeq(log, KeepMessage)),
         [role |-> "user", content |-> cleanDraft])

\* variant: the new message is put in front
PrependMessage(prev, message) == <<message>> \o prev

\* (prev) => [...prev, message]
AppendMessage(prev, message) == Append(prev, message)

\* variant: the effect is missing
CourseEffectNone(oldProp, newProp, log) == log

\* the useEffect keyed on the selectedCourseId prop of ChatPanel
CourseEffect(oldProp, newProp, log) ==
  IF newProp # oldProp THEN <<SeedMessage>> ELSE log

Init ==
  /\ selectedCourseId = COURSES[1].id
  /\ draft = <<>>
  /\ messages = <<SeedMessage>>
  /\ isLoading = FALSE
  /\ pending = <<>>
  /\ fetches = 0
  /\ sends = 0
  /\ now = StartClock
  /\ event = Ev("mount", NoCourse, <<>>)

\* onChange of the text input, which is disabled while isLoading
SetDraft(value) ==
  /\ ~isLoading
  /\ draft' = value
  /\ event' = Ev("setDraft", NoCourse, <<>>)
  /\ UNCHANGED <<selectedCourseId, messages, isLoading, pending, fetches,
                 sends, now>>

SendGuard(cleanDraft, loading) == cleanDraft = <<>> \/ loading

\* variant: the flag is not raised by a submit
LoadingNotRaised == FALSE

LoadingAfterSend == TRUE

\* handleSend up to the await of fetch
HandleSend ==
  LET cleanDraft == Trim(draft)
      newMessage == [id |-> now, sender |-> "student", text |-> cleanDraft]
      request == [message |-> cleanDraft,
                  course_name |-> selectedCourse.name,
                  conversation_history |->
                    ConversationHistory(messages, cleanDraft),
                  document_filenames |-> selectedDocuments]
  IN IF SendGuard(cleanDraft, isLoading)
     THEN /\ event' = Ev("sendIgnored", NoCourse, <<>>)
          /\ UNCHANGED <<selectedCourseId, draft, messages, isLoading,
                         pending, fetches, sends, now>>
     ELSE /\ sends < MaxSends
          /\ messages' = AppendMessage(messages, newMessage)
          /\ draft' = <<>>
          /\ isLoading' = LoadingAfterSend
          /\ pending' = Append(pending, request)
          /\ fetches' = fetches + 1
          /\ sends' = sends + 1
          /\ event' = Ev("send", NoCourse, <<>>)
          /\ UNCHANGED <<selectedCourseId, now>>

RemoveAt(s, i) == SubSeq(s, 1, i - 1) \o SubSeq(s, i + 1, Len(s))

\* variant: the text is read from a field the reply does not have
AiMessageWrongField(t, text) ==
  [id |-> t + 1, sender |-> "assistant", text |-> <<"undefined">>]

AiMessage(t, text) == [id |-> t + 1, sender |-> "assistant", text |-> text]

ErrorMessage(t) == [id |-> t + 1, sender |-> "assistant", text |-> FallbackText]

\* variant: isLoading is not cleared when the request has settled
LoadingAfterSettleStuck == TRUE

\* finally { setIsLoading(false) }
LoadingAfterSettle == FALSE

\* variant: a reply to a request of another course is dropped
FetchOkDropStale(i, reply) ==
  /\ i \in 1..Len(pending)
  /\ messages' = IF pending[i].course_name = selectedCourse.name
                 THEN AppendMessage(messages, AiMessage(now, reply))
                 ELSE messages
  /\ isLoading' = LoadingAfterSettle
  /\ pending' = RemoveAt(pending, i)
  /\ event' = Ev("responseOk", pending[i].course_name, reply)
  /\ UNCHANGED <<selectedCourseId, draft, fetches, sends, now>>

\* fetch resolves with a 2xx status and response.json() yields {response: reply}
FetchOk(i, reply) ==
  /\ i \in 1..Len(pending)
  /\ messages' = AppendMessage(messages, AiMessage(now, reply))
  /\ isLoading' = LoadingAfterSettle
  /\ pending' = RemoveAt(pending, i)
  /\ event' = Ev("responseOk", pending[i].course_name, reply)
  /\ UNCHANGED <<selectedCourseId, draft, fetches, sends, now>>

FailureKinds == {"rejected", "status"}

\* variant: the catch block issues the request again
FetchFailRetry(i, kind) ==
  /\ i \in 1..Len(pending)
  /\ messages' = AppendMessage(messages, ErrorMessage(now))
  /\ fetches' = fetches + 1
  /\ event' = Ev(kind, pending[i].course_name, <<>>)
  /\ UNCHANGED <<selectedCourseId, draft, isLoading, pending, sends, now>>

\* fetch rejects, or resolves with a status outside 2xx: the catch block
FetchFail(i, kind) ==
  /\ i \in 1..Len(pending)
  /\ messages' = AppendMessage(messages, ErrorMessage(now))
  /\ isLoading' = LoadingAfterSettle
  /\ pending' = RemoveAt(pending, i)
  /\ event' = Ev(kind, pending[i].course_name, <<>>)
  /\ UNCHANGED <<selectedCourseId, draft, fetches, sends, now>>

----------------------------------------------------------------------------
(* DashboardPage *)

\* variant: the effect also lowers the loading flag
SelectCourseLowersLoading(cid) ==
  /\ selectedCourseId' = cid
  /\ messages' = CourseEffect(selectedCourse.id, SelectedCourseOf(cid).id,
                              messages)
  /\ isLoading' = (isLoading /\ SelectedCourseOf(cid).id = selectedCourse.id)
  /\ event' = Ev("selectCourse", NoCourse, <<>>)
  /\ UNCHANGED <<draft, pending, fetches, sends, now>>

\* onSelectCourse={setSelectedCourseId}, then the effect of ChatPanel
SelectCourse(cid) ==
  /\ selectedCourseId' = cid
  /\ messages' = CourseEffect(selectedCourse.id, SelectedCourseOf(cid).id,
                              messages)
  /\ event' = Ev("selectCourse", NoCourse, <<>>)
  /\ UNCHANGED <<draft, isLoading, pending, fetches, sends, now>>

\* the clock advances
Tick ==
  /\ now < StartClock + MaxTicks
  /\ now' = now + 1
  /\ event' = Ev("tick", NoCourse, <<>>)
  /\ UNCHANGED <<selectedCourseId, draft, messages, isLoading, pending,
                 fetches, sends>>

Next ==
  \/ (\E value \in Drafts : SetDraft(value)) /\ UNCHANGED notChat
  \/ HandleSend /\ UNCHANGED notChat
  \/ (\E i \in 1..Len(pending), reply \in Replies : FetchOk(i, reply))
       /\ UNCHANGED notChat
  \/ (\E i \in 1..Len(pending), kind \in FailureKinds : FetchFail(i, kind))
       /\ UNCHANGED notChat
  \/ (\E cid \in CourseIds : SelectCourse(cid)) /\ UNCHANGED notChat
  \/ Tick /\ UNCHANGED notChat

----------------------------------------------------------------------------
(* LoginPage, App: the session gate *)

DEMO_EMAIL == <<"demo@myapp.com">>

DEMO_PASSWORD == <<"abcd">>

\* String.prototype.toLowerCase, symbol by symbol
LowerSymbol(c) ==
  CASE c = "DEMO@MYAPP.COM" -> "demo@myapp.com"
    [] c = "Demo@MyApp.com" -> "demo@myapp.com"
    [] c = "ABCD" -> "abcd"
    [] OTHER -> c

ToLowerCase(s) == [k \in 1..Len(s) |-> LowerSymbol(s[k])]

\* what the user types in the email field
Emails ==
  { <<>>, <<" ">>, <<"demo@myapp.com">>, <<"DEMO@MYAPP.COM">>,
    <<"Demo@MyApp.com">>, <<" ", "demo@myapp.com", " ">>,
    <<"other@myapp.com">> }

\* what the user types in the password field
Passwords ==
  { <<>>, <<" ">>, <<"abcd">>, <<"ABCD">>, <<" ", "abcd">>, <<"abcd", " ">>,
    <<"abcde">> }

MissingFieldsError == <<"Please enter both email and password.">>

InvalidCredentialsError ==
  <<"Invalid credentials. Please use the demo login details.">>

Paths == {"/", "/dashboard", "/other"}

\* sessionStorage.setItem / removeItem
SetItem(store, key, value) ==
  [k \in DOMAIN store \cup {key} |-> IF k = key THEN value ELSE store[k]]

\* variant: sessionStorage.clear()
RemoveItemClears(store, key) == <<>>

RemoveItem(store, key) == [k \in DOMAIN store \ {key} |-> store[k]]

\* sessionStorage.getItem("student_auth") === "true"
IsAuthenticatedIn(store) ==
  /\ "student_auth" \in DOMAIN store
  /\ store["student_auth"] = <<"true">>

isAuthenticated == IsAuthenticatedIn(sessionStorage)

\* variant: the dashboard route is not wrapped in ProtectedRoute
RouteOpen(path, store) ==
  IF path = "/dashboard"
  THEN "/dashboard"
  ELSE IF IsAuthenticatedIn(store) THEN "/dashboard" ELSE "/"

\* the Routes of App: LoginPage sends an authenticated visitor to the
\* dashboard, ProtectedRoute sends any other visitor to the login page
Route(path, store) ==
  IF path = "/dashboard"
  THEN IF IsAuthenticatedIn(store) THEN "/dashboard" ELSE "/"
  ELSE IF IsAuthenticatedIn(store) THEN "/dashboard" ELSE "/"

\* variant: the password is normalised like the email
CredentialsMatchLoose(e, p) ==
  ToLowerCase(Trim(e)) = DEMO_EMAIL /\ ToLowerCase(Trim(p)) = DEMO_PASSWORD

\* email.trim().toLowerCase() === DEMO_EMAIL && password === DEMO_PASSWORD
CredentialsMatch(e, p) == ToLowerCase(Trim(e)) = DEMO_EMAIL /\ p = DEMO_PASSWORD

InitAuth ==
  /\ sessionStorage = <<>>
  /\ location = "/"
  /\ email = <<>>
  /\ password = <<>>
  /\ error = <<>>

\* onChange of the email field
SetEmail(value) ==
  /\ location = "/"
  /\ email' = value
  /\ event' = Ev("setEmail", NoCourse, <<>>)
  /\ UNCHANGED <<sessionStorage, location, password, error>>

\* onChange of the password field
SetPassword(value) ==
  /\ location = "/"
  /\ password' = value
  /\ event' = Ev("setPassword", NoCourse, <<>>)
  /\ UNCHANGED <<sessionStorage, location, email, error>>

\* LoginPage.handleSubmit
HandleSubmit ==
  /\ location = "/"
  /\ IF Trim(email) = <<>> \/ Trim(password) = <<>>
     THEN /\ error' = MissingFieldsError
          /\ event' = Ev("MissingFields", NoCourse, <<>>)
          /\ UNCHANGED <<sessionStorage, location, email, password>>
     ELSE IF CredentialsMatch(email, password)
     THEN /\ sessionStorage' =
               SetItem(SetItem(sessionStorage, "student_auth", <<"true">>),
                       "student_email", ToLowerCase(Trim(email)))
          /\ location' = Route("/dashboard", sessionStorage')
          /\ email' = <<>>
          /\ password' = <<>>
          /\ error' = <<>>
          /\ event' = Ev("success", NoCourse, email)
     ELSE /\ error' = InvalidCredentialsError
          /\ event' = Ev("InvalidCredentials", NoCourse, <<>>)
          /\ UNCHANGED <<sessionStorage, location, email, password>>

\* DashboardPage.handleLogout
HandleLogout ==
  /\ location = "/dashboard"
  /\ sessionStorage' = RemoveItem(sessionStorage, "student_auth")
  /\ location' = Route("/", sessionStorage')
  /\ event' = Ev("logout", NoCourse, <<>>)
  /\ UNCHANGED <<email, password, error>>

\* the visitor opens a path: the page is mounted afresh
Navigate(path) ==
  /\ location' = Route(path, sessionStorage)
  /\ email' = <<>>
  /\ password' = <<>>
  /\ error' = <<>>
  /\ event' = Ev("navigate", NoCourse, <<>>)
  /\ UNCHANGED sessionStorage

NextAuth ==
  \/ (\E value \in Emails : SetEmail(value)) /\ UNCHANGED notAuth
  \/ (\E value \in Passwords : SetPassword(value)) /\ UNCHANGED notAuth
  \/ HandleSubmit /\ UNCHANGED notAuth
  \/ HandleLogout /\ UNCHANGED notAuth
  \/ (\E path \in Paths : Navigate(path)) /\ UNCHANGED notAuth

----------------------------------------------------------------------------
(* GeneratePanel *)

FailedToGenerate == <<"Failed to generate.">>

\* what the user types in the topic field
Topics == {<<>>, <<" ">>, <<"limits">>}

GenKinds == {"guide", "exam"}

\* the text a reply carries in its study_guide / practice_exam field; the
\* empty text stands for a missing or empty field
GenTexts == {<<>>, <<"generated text">>}

\* the outcomes of a generation request: fetch rejects, or it resolves with
\* a status and a body that is JSON (with the field or not) or is not JSON
GenOutcomes ==
  {[settled |-> "rejected", ok |-> FALSE, json |-> FALSE, text |-> <<>>]}
  \cup {[settled |-> "resolved", ok |-> ok, json |-> FALSE, text |-> <<>>] :
          ok \in BOOLEAN}
  \cup {[settled |-> "resolved", ok |-> ok, json |-> TRUE, text |-> t] :
          ok \in BOOLEAN, t \in GenTexts}

\* topic.trim() || undefined
TopicOf(t) == Trim(t)

GenRequest(kind) ==
  [kind |-> kind, course_name |-> selectedCourse.name, topic |-> TopicOf(topic)]

\* variant: the status of the reply is checked before its body is read
GenResultChecked(outcome) ==
  IF outcome.settled = "rejected" \/ ~outcome.ok \/ ~outcome.json
  THEN FailedToGenerate
  ELSE IF outcome.text # <<>> THEN outcome.text ELSE FailedToGenerate

\* data = await res.json(); data.study_guide || "Failed to generate.", and
\* the catch block when fetch or res.json() rejects
GenResult(outcome) ==
  IF outcome.settled = "rejected" \/ ~outcome.json
  THEN FailedToGenerate
  ELSE IF outcome.text # <<>> THEN outcome.text ELSE FailedToGenerate

InitGenerate ==
  /\ topic = <<>>
  /\ studyGuide = <<>>
  /\ practiceExam = <<>>
  /\ loadingGuide = FALSE
  /\ loadingExam = FALSE
  /\ genPending = <<>>

reviewVars == <<prompts, fullText, reviewLoading, reviewPending>>

\* onChange of the topic field
SetTopic(value) ==
  /\ topic' = value
  /\ event' = Ev("setTopic", NoCourse, <<>>)
  /\ UNCHANGED <<studyGuide, practiceExam, loadingGuide, loadingExam,
                 genPending, reviewVars>>

\* variant: one loading flag serves both buttons
GenerateStudyGuideSharedFlag ==
  /\ ~loadingGuide
  /\ loadingGuide' = TRUE
  /\ loadingExam' = TRUE
  /\ studyGuide' = <<>>
  /\ genPending' = Append(genPending, GenRequest("guide"))
  /\ event' = Ev("guide:start", NoCourse, <<>>)
  /\ UNCHANGED <<topic, practiceExam, reviewVars>>

\* generateStudyGuide up to the await of fetch; the button is disabled
\* while loadingGuide
GenerateStudyGuide ==
  /\ ~loadingGuide
  /\ loadingGuide' = TRUE
  /\ studyGuide' = <<>>
  /\ genPending' = Append(genPending, GenRequest("guide"))
  /\ event' = Ev("guide:start", NoCourse, <<>>)
  /\ UNCHANGED <<topic, practiceExam, loadingExam, reviewVars>>

\* generatePracticeExam up to the await of fetch; the button is disabled
\* while loadingExam
GeneratePracticeExam ==
  /\ ~loadingExam
  /\ loadingExam' = TRUE
  /\ practiceExam' = <<>>
  /\ genPending' = Append(genPending, GenRequest("exam"))
  /\ event' = Ev("exam:start", NoCourse, <<>>)
  /\ UNCHANGED <<topic, studyGuide, loadingGuide, reviewVars>>

\* generateStudyGuide after the await: try, catch, finally
StudyGuideSettles(i, outcome) ==
  /\ i \in 1..Len(genPending)
  /\ genPending[i].kind = "guide"
  /\ studyGuide' = GenResult(outcome)
  /\ loadingGuide' = FALSE
  /\ genPending' = RemoveAt(genPending, i)
  /\ event' = Ev("guide:settled", NoCourse, outcome)
  /\ UNCHANGED <<topic, practiceExam, loadingExam, reviewVars>>

\* generatePracticeExam after the await: try, catch, finally
PracticeExamSettles(i, outcome) ==
  /\ i \in 1..Len(genPending)
  /\ genPending[i].kind = "exam"
  /\ practiceExam' = GenResult(outcome)
  /\ loadingExam' = FALSE
  /\ genPending' = RemoveAt(genPending, i)
  /\ event' = Ev("exam:settled", NoCourse, outcome)
  /\ UNCHANGED <<topic, studyGuide, loadingGuide, reviewVars>>

----------------------------------------------------------------------------
(* WeeklyReviewPanel *)

FailedToGenerateReview == <<"Failed to generate review.">>

\* the review_prompts field of a reply: missing, empty, or one prompt
PromptFields ==
  { [present |-> FALSE, items |-> <<>>],
    [present |-> TRUE, items |-> <<>>],
    [present |-> TRUE, items |-> << <<"prompt">> >>] }

\* the full_text and message fields; the empty text stands for a missing or
\* empty field
ReviewFullTexts == {<<>>, <<"full text">>}

ReviewMessages == {<<>>, <<"message">>}

ReviewData ==
  [review_prompts : PromptFields, full_text : ReviewFullTexts,
   message : ReviewMessages]

NoReviewData ==
  [review_prompts |-> [present |-> FALSE, items |-> <<>>],
   full_text |-> <<>>, message |-> <<>>]

\* fetch rejects, or resolves with a body that is not JSON, or with data
ReviewOutcomes ==
  {[settled |-> "rejected", json |-> FALSE, data |-> NoReviewData],
   [settled |-> "resolved", json |-> FALSE, data |-> NoReviewData]}
  \cup {[settled |-> "resolved", json |-> TRUE, data |-> d] : d \in ReviewData}

\* if (data.review_prompts) setPrompts(data.review_prompts)
ReviewPrompts(data, prev) ==
  IF data.review_prompts.present THEN data.review_prompts.items ELSE prev

\* variant: the message is used only when there is no full_text either
ReviewTextFullTextFirst(data, prev) ==
  IF data.full_text # <<>> THEN data.full_text
  ELSE IF data.message # <<>> /\ Len(data.review_prompts.items) = 0
       THEN data.message
       ELSE prev

\* if (data.full_text) setFullText(data.full_text);
\* if (data.message && !data.review_prompts?.length) setFullText(data.message)
ReviewText(data, prev) ==
  LET afterFullText == IF data.full_text # <<>> THEN data.full_text ELSE prev
  IN IF data.message # <<>> /\ Len(data.review_prompts.items) = 0
     THEN data.message
     ELSE afterFullText

InitReview ==
  /\ prompts = <<>>
  /\ fullText = <<>>
  /\ reviewLoading = FALSE
  /\ reviewPending = 0

generateVars == <<topic, studyGuide, practiceExam, loadingGuide, loadingExam,
                  genPending>>

\* generateReview up to the await of fetch; the button is disabled while
\* loading
GenerateReview ==
  /\ ~reviewLoading
  /\ reviewLoading' = TRUE
  /\ prompts' = <<>>
  /\ fullText' = <<>>
  /\ reviewPending' = reviewPending + 1
  /\ event' = Ev("review:start", NoCourse, <<>>)
  /\ UNCHANGED generateVars

\* generateReview after the await: try, catch, finally
ReviewSettles(outcome) ==
  /\ reviewPending > 0
  /\ IF outcome.settled = "rejected" \/ ~outcome.json
     THEN /\ fullText' = FailedToGenerateReview
          /\ prompts' = prompts
     ELSE /\ prompts' = ReviewPrompts(outcome.data, prompts)
          /\ fullText' = ReviewText(outcome.data, fullText)
  /\ reviewLoading' = FALSE
  /\ reviewPending' = reviewPending - 1
  /\ event' = Ev("review:settled", NoCourse, outcome)
  /\ UNCHANGED generateVars

NextGenerate ==
  \/ (\E value \in Topics : SetTopic(value)) /\ UNCHANGED notGen
  \/ GenerateStudyGuide /\ UNCHANGED notGen
  \/ GeneratePracticeExam /\ UNCHANGED notGen
  \/ (\E i \in 1..Len(genPending), outcome \in GenOutcomes :
        StudyGuideSettles(i, outcome)) /\ UNCHANGED notGen
  \/ (\E i \in 1..Len(genPending), outcome \in GenOutcomes :
        PracticeExamSettles(i, outcome)) /\ UNCHANGED notGen
  \/ GenerateReview /\ UNCHANGED notGen
  \/ (\E outcome \in ReviewOutcomes : ReviewSettles(outcome))
       /\ UNCHANGED notGen

----------------------------------------------------------------------------
(* MistakesPanel *)

Mistake(id, course, question) ==
  [id |-> id, course |-> course, question |-> question]

\* the lists /api/mistakes answers with; the last one holds an id twice
MistakeLists ==
  { <<>>,
    << Mistake(1, "Calculus 1", "q1"), Mistake(2, "Mechatronics", "q2"),
       Mistake(3, "Calculus 1", "q3") >>,
    << Mistake(2, "Mechatronics", "q2"), Mistake(1, "Calculus 1", "q1"),
       Mistake(2, "Mechatronics", "q2 again") >> }

\* the texts typed in the course filter
FilterCourses == {"", "Calculus 1"}

\* how a list request settles: fetch rejects, or answers with a status and,
\* when the status is 2xx, a body whose `mistakes` is a list (an absent
\* `mistakes` reads as the empty list, data.mistakes || [])
ListOutcomes ==
  {[settled |-> "rejected", ok |-> FALSE, mistakes |-> <<>>],
   [settled |-> "response", ok |-> FALSE, mistakes |-> <<>>]}
    \cup {[settled |-> "response", ok |-> TRUE, mistakes |-> list] :
            list \in MistakeLists}

\* how a DELETE request settles
DeleteOutcomes == {"ok", "status", "rejected"}

\* the request the effect of [filterCourse] issues
ListRequest(course) == [course |-> course, cancelled |-> FALSE]

\* variant: the effect has no cleanup
CancelNone(requests) == requests

\* the cleanup of the effect: cancelled = true in the closure of each
\* request issued before
CancelAll(requests) ==
  [k \in 1..Len(requests) |-> [requests[k] EXCEPT !.cancelled = TRUE]]

mistakeIds == {mistakes[k].id : k \in 1..Len(mistakes)}

WithId(m, id) == m.id = id

RemoveMistakeKeepsId(prev, id) == SelectSeq(prev, LAMBDA m : WithId(m, id))

\* prev.filter((m) => m.id !== id)
RemoveMistake(prev, id) == SelectSeq(prev, LAMBDA m : ~WithId(m, id))

InitMistakes ==
  /\ mistakes = <<>>
  /\ mistakesLoading = TRUE
  /\ filterCourse = ""
  /\ listRequests = <<ListRequest("")>>
  /\ deleteRequests = <<>>

\* onChange of the filter input: setFilterCourse, then the effect of
\* [filterCourse] runs its cleanup and fetches again
SetFilterCourse(value) ==
  /\ value # filterCourse
  /\ Len(listRequests) < MaxListRequests
  /\ filterCourse' = value
  /\ listRequests' = Append(CancelAll(listRequests), ListRequest(value))
  /\ event' = Ev("filter", value, <<>>)
  /\ UNCHANGED <<mistakes, mistakesLoading, deleteRequests>>

\* fetchMistakes after its await
ListSettles(i, outcome) ==
  /\ i \in 1..Len(listRequests)
  /\ listRequests' = RemoveAt(listRequests, i)
  /\ IF listRequests[i].cancelled
       THEN UNCHANGED <<mistakes, mistakesLoading>>
       ELSE /\ mistakes' = IF outcome.ok THEN outcome.mistakes ELSE <<>>
            /\ mistakesLoading' = FALSE
  /\ event' = Ev(IF listRequests[i].cancelled THEN "list:stale"
                 ELSE "list:settled", listRequests[i].course, outcome)
  /\ UNCHANGED <<filterCourse, deleteRequests>>

\* deleteMistake(id) up to its await; the Remove buttons are those of the
\* entries shown
DeleteMistake(id) ==
  /\ ~mistakesLoading
  /\ id \in mistakeIds
  /\ Len(deleteRequests) < MaxDeletes
  /\ deleteRequests' = Append(deleteRequests, id)
  /\ event' = Ev("delete:start", NoCourse, id)
  /\ UNCHANGED <<mistakes, mistakesLoading, filterCourse, listRequests>>

\* deleteMistake(id) after its await
DeleteSettles(i, outcome) ==
  /\ i \in 1..Len(deleteRequests)
  /\ deleteRequests' = RemoveAt(deleteRequests, i)
  /\ mistakes' = IF outcome = "ok"
                   THEN RemoveMistake(mistakes, deleteRequests[i])
                   ELSE mistakes
  /\ event' = Ev("delete:" \o outcome, NoCourse, deleteRequests[i])
  /\ UNCHANGED <<mistakesLoading, filterCourse, listRequests>>

NextMistakes ==
  \/ (\E value \in FilterCourses : SetFilterCourse(value))
       /\ UNCHANGED notMistakes
  \/ (\E i \in 1..Len(listRequests), outcome \in ListOutcomes :
        ListSettles(i, outcome)) /\ UNCHANGED notMistakes
  \/ (\E id \in mistakeIds : DeleteMistake(id)) /\ UNCHANGED notMistakes
  \/ (\E i \in 1..Len(deleteRequests), outcome \in DeleteOutcomes :
        DeleteSettles(i, outcome)) /\ UNCHANGED notMistakes

----------------------------------------------------------------------------
(* JSON values and JSON text *)

\* A JSON value is [t, v]: t its type and v what it holds, the literal of a
\* scalar, the text of a string, the items of an array, the members of an
\* object.  A JSON text is a sequence of symbols: a punctuation mark, a
\* literal, a number, or one piece of the inside of a string.

JUndefined == [t |-> "undefined", v |-> <<>>]

JNull == [t |-> "null", v |-> <<>>]

JBool(b) == [t |-> "bool", v |-> <<IF b THEN "true" ELSE "false">>]

JNum(symbol) == [t |-> "num", v |-> <<symbol>>]

JStr(text) == [t |-> "str", v |-> text]

JArr(items) == [t |-> "arr", v |-> items]

JObj(members) == [t |-> "obj", v |-> members]

Member(key, value) == [k |-> key, val |-> value]

Quote == "\""

\* the numbers of the texts, and the shortest decimal of each
NumberSymbols == {"0", "5", "5.0"}

NumberOf(symbol) == IF symbol = "5.0" THEN "5" ELSE symbol

\* the characters a JSON string holds escaped
Escaped == {Quote, "\n", "\t"}

EscapeSymbol(c) ==
  CASE c = Quote -> "\\\""
    [] c = "\n" -> "\\n"
    [] c = "\t" -> "\\t"
    [] OTHER -> c

UnescapeSymbol(c) ==
  CASE c = "\\\"" -> Quote
    [] c = "\\n" -> "\n"
    [] c = "\\t" -> "\t"
    [] OTHER -> c

Escape(text) == [k \in 1..Len(text) |-> EscapeSymbol(text[k])]

Unescape(text) == [k \in 1..Len(text) |-> UnescapeSymbol(text[k])]

StringLiteral(text) == <<Quote>> \o Escape(text) \o <<Quote>>

Spaces(n) == [k \in 1..n |-> " "]

\* the `space` argument of JSON.stringify(plan, null, 2)
Indent == 2

RECURSIVE Stringify(_, _)
RECURSIVE StringifyItems(_, _)
RECURSIVE StringifyMembers(_, _)

\* JSON.stringify(value, null, 2), the text after `indent` spaces
Stringify(value, indent) ==
  CASE value.t = "null" -> <<"null">>
    [] value.t \in {"bool", "num"} -> value.v
    [] value.t = "str" -> StringLiteral(value.v)
    [] value.t = "arr" ->
         IF value.v = <<>> THEN <<"[", "]">>
         ELSE <<"[", "\n">> \o StringifyItems(value.v, indent + Indent)
                \o <<"\n">> \o Spaces(indent) \o <<"]">>
    [] value.t = "obj" ->
         IF value.v = <<>> THEN <<"{", "}">>
         ELSE <<"{", "\n">> \o StringifyMembers(value.v, indent + Indent)
                \o <<"\n">> \o Spaces(indent) \o <<"}">>

StringifyItems(items, indent) ==
  Spaces(indent) \o Stringify(Head(items), indent)
    \o (IF Len(items) = 1 THEN <<>>
        ELSE <<",", "\n">> \o StringifyItems(Tail(items), indent))

StringifyMembers(members, indent) ==
  Spaces(indent) \o StringLiteral(Head(members).k) \o <<":", " ">>
    \o Stringify(Head(members).val, indent)
    \o (IF Len(members) = 1 THEN <<>>
        ELSE <<",", "\n">> \o StringifyMembers(Tail(members), indent))

\* what a parser returns: whether it read a value, the value, the text left
Parsed(value, rest) == [ok |-> TRUE, val |-> value, rest |-> rest]

SyntaxError == [ok |-> FALSE, val |-> JUndefined, rest |-> <<>>]

\* the inside of a string and its closing quote
ParseString(text) ==
  LET quotes == {k \in 1..Len(text) : text[k] = Quote}
  IN IF quotes = {} THEN SyntaxError
     ELSE LET close == CHOOSE k \in quotes : \A j \in quotes : k <= j
              inside == SubSeq(text, 1, close - 1)
          IN IF \E k \in 1..Len(inside) : inside[k] \in Escaped
               THEN SyntaxError
               ELSE Parsed(JStr(Unescape(inside)),
                           SubSeq(text, close + 1, Len(text)))

RECURSIVE ParseValue(_)
RECURSIVE ParseItems(_, _)
RECURSIVE ParseMembers(_, _)

\* one JSON value at the start of the text, white space before it skipped
ParseValue(text) ==
  LET s == TrimStart(text)
  IN IF s = <<>> THEN SyntaxError
     ELSE CASE Head(s) = "null" -> Parsed(JNull, Tail(s))
            [] Head(s) = "true" -> Parsed(JBool(TRUE), Tail(s))
            [] Head(s) = "false" -> Parsed(JBool(FALSE), Tail(s))
            [] Head(s) \in NumberSymbols ->
                 Parsed(JNum(NumberOf(Head(s))), Tail(s))
            [] Head(s) = Quote -> ParseString(Tail(s))
            [] Head(s) = "[" ->
                 IF TrimStart(Tail(s)) # <<>> /\ Head(TrimStart(Tail(s))) = "]"
                   THEN Parsed(JArr(<<>>), Tail(TrimStart(Tail(s))))
                   ELSE ParseItems(Tail(s), <<>>)
            [] Head(s) = "{" ->
                 IF TrimStart(Tail(s)) # <<>> /\ Head(TrimStart(Tail(s))) = "}"
                   THEN Parsed(JObj(<<>>), Tail(TrimStart(Tail(s))))
                   ELSE ParseMembers(Tail(s), <<>>)
            [] OTHER -> SyntaxError

\* the items of an array after its "[" and the items read so far
ParseItems(text, items) ==
  LET item == ParseValue(text)
      s == TrimStart(item.rest)
  IN IF ~item.ok \/ s = <<>> THEN SyntaxError
     ELSE CASE Head(s) = "," -> ParseItems(Tail(s), Append(items, item.val))
            [] Head(s) = "]" -> Parsed(JArr(Append(items, item.val)), Tail(s))
            [] OTHER -> SyntaxError

\* the members of an object after its "{" and the members read so far
ParseMembers(text, members) ==
  LET s == TrimStart(text)
      key == IF s # <<>> /\ Head(s) = Quote THEN ParseString(Tail(s))
             ELSE SyntaxError
      colon == TrimStart(key.rest)
      value == IF key.ok /\ colon # <<>> /\ Head(colon) = ":"
                 THEN ParseValue(Tail(colon))
                 ELSE SyntaxError
      next == TrimStart(value.rest)
      read == Append(members, Member(key.val.v, value.val))
  IN IF ~value.ok \/ next = <<>> THEN SyntaxError
     ELSE CASE Head(next) = "," -> ParseMembers(Tail(next), read)
            [] Head(next) = "}" -> Parsed(JObj(read), Tail(next))
            [] OTHER -> SyntaxError

\* JSON.parse(text): ok is FALSE where it throws
JSONParse(text) ==
  LET value == ParseValue(text)
  IN IF value.ok /\ TrimStart(value.rest) = <<>>
       THEN Parsed(value.val, <<>>)
       ELSE SyntaxError

\* the truthiness of a value, as `data.plan ? ... : ...` tests it
Truthy(value) ==
  CASE value.t \in {"undefined", "null"} -> FALSE
    [] value.t = "bool" -> value.v = <<"true">>
    [] value.t = "num" -> value.v # <<"0">>
    [] value.t = "str" -> value.v # <<>>
    [] OTHER -> TRUE

----------------------------------------------------------------------------
(* StudyPlanPanel *)

\* the texts typed in the textarea
EditTexts ==
  { <<>>,
    <<"hello">>,
    <<" ", "hello", "\n">>,
    <<"null">>,
    <<"true">>,
    <<"0">>,
    <<"5.0">>,
    <<Quote, "hello", Quote>>,
    <<"[", " ", "5", "]">>,
    <<"{", Quote, "goals", Quote, ":", "[", "]", "}", "\n">> }

\* how a request to /api/study-plan settles
PlanOutcomes == {"ok", "status", "rejected"}

\* { notes: toSave }
Notes(text) == JObj(<<Member(<<"notes">>, JStr(text))>>)

PlanToSaveUntrimmed(text) ==
  IF JSONParse(text).ok THEN JSONParse(text).val ELSE Notes(text)

\* toSave of savePlan: editing.trim(), parsed, or wrapped where the parse
\* throws
PlanToSave(text) ==
  IF JSONParse(Trim(text)).ok
    THEN JSONParse(Trim(text)).val
    ELSE Notes(Trim(text))

EditorTextToString(value) ==
  IF Truthy(value)
    THEN IF value.t = "str" THEN value.v ELSE <<"[object Object]">>
    ELSE <<>>

\* the argument of setEditing in fetchPlan
EditorTextOf(value) ==
  IF Truthy(value)
    THEN IF value.t = "str" THEN value.v ELSE Stringify(value, 0)
    ELSE <<>>

InitPlan ==
  /\ plan = JNull
  /\ editing = <<>>
  /\ planLoading = TRUE
  /\ saving = FALSE
  /\ planMount = 1
  /\ planLoads = <<1>>
  /\ planSaves = <<>>
  /\ serverPlan = JUndefined

\* the panel is mounted again (the page is reloaded, or the tab reopened):
\* a new instance with its initial state, whose effect runs fetchPlan.  The
\* cleanup of the instance before it sets cancelled = true, after which its
\* fetchPlan changes nothing: that request is dropped.  Its savePlan stays
\* in flight.
MountPlanPanel ==
  /\ planMount < MaxMounts
  /\ planMount' = planMount + 1
  /\ plan' = JNull
  /\ editing' = <<>>
  /\ planLoading' = TRUE
  /\ saving' = FALSE
  /\ planLoads' = <<planMount + 1>>
  /\ event' = Ev("plan:mount", NoCourse, <<>>)
  /\ UNCHANGED <<planSaves, serverPlan>>

\* fetchPlan after its await, cancelled being false
FetchPlanSettles(i, outcome) ==
  /\ i \in 1..Len(planLoads)
  /\ planLoads[i] = planMount
  /\ planLoads' = RemoveAt(planLoads, i)
  /\ IF outcome = "ok"
       THEN /\ plan' = serverPlan
            /\ editing' = EditorTextOf(serverPlan)
       ELSE /\ plan' = JNull
            /\ editing' = editing
  /\ planLoading' = FALSE
  /\ event' = Ev("plan:loaded", NoCourse, outcome)
  /\ UNCHANGED <<saving, planMount, planSaves, serverPlan>>

\* onChange of the textarea, shown once loading is false
SetEditing(value) ==
  /\ ~planLoading
  /\ editing' = value
  /\ event' = Ev("plan:edit", NoCourse, <<>>)
  /\ UNCHANGED <<plan, planLoading, saving, planMount, planLoads, planSaves,
                 serverPlan>>

\* savePlan up to its await; the button is disabled while saving
SavePlan ==
  /\ ~planLoading
  /\ ~saving
  /\ saving' = TRUE
  /\ planSaves' = Append(planSaves, [mount |-> planMount,
                                     plan |-> PlanToSave(editing)])
  /\ event' = Ev("plan:save", NoCourse, <<>>)
  /\ UNCHANGED <<plan, editing, planLoading, planMount, planLoads,
                 serverPlan>>

\* savePlan after its await; the store keeps the plan of a request it
\* answers with a 2xx status
SavePlanSettles(i, outcome) ==
  /\ i \in 1..Len(planSaves)
  /\ planSaves' = RemoveAt(planSaves, i)
  /\ serverPlan' = IF outcome = "ok" THEN planSaves[i].plan ELSE serverPlan
  /\ IF planSaves[i].mount = planMount
       THEN /\ plan' = IF outcome = "ok" THEN planSaves[i].plan ELSE plan
            /\ saving' = FALSE
       ELSE UNCHANGED <<plan, saving>>
  /\ event' = Ev("plan:saved", NoCourse, outcome)
  /\ UNCHANGED <<editing, planLoading, planMount, planLoads>>

NextPlan ==
  \/ MountPlanPanel /\ UNCHANGED notPlan
  \/ (\E i \in 1..Len(planLoads), outcome \in PlanOutcomes :
        FetchPlanSettles(i, outcome)) /\ UNCHANGED notPlan
  \/ (\E value \in EditTexts : SetEditing(value)) /\ UNCHANGED notPlan
  \/ SavePlan /\ UNCHANGED notPlan
  \/ (\E i \in 1..Len(planSaves), outcome \in PlanOutcomes :
        SavePlanSettles(i, outcome)) /\ UNCHANGED notPlan

----------------------------------------------------------------------------
(* FileUploadPanel: the panel that refreshes its list from /api/files and *)
(* the panel that keeps its list locally                                  *)

PanelKinds == {"refresh", "local"}

\* the selections of the file input, by the names of their files
Selections == { <<"a.pdf">>, <<"a.pdf", "b.pdf">> }

UploadFailedText == <<"Upload failed">>

\* how an upload request settles: a 2xx status, another status with a JSON
\* body that has an `error` or has none, or a rejected fetch
UploadOutcomes ==
  { [kind |-> "accepted", error |-> <<>>],
    [kind |-> "refused", error |-> <<"File type not allowed">>],
    [kind |-> "refused", error |-> <<>>],
    [kind |-> "rejected", error |-> <<"Failed to fetch">>] }

\* how a list or a DELETE request settles
FileOutcomes == {"ok", "status", "rejected"}

\* the entry the store makes for an upload, under the name it assigns
UploadedFile(filename, originalName) ==
  [filename |-> filename, originalName |-> originalName]

\* a list request, which the store has not answered yet; `purpose` is the
\* caller of fetchFiles
ListFetch(purpose) == [purpose |-> purpose, answered |-> FALSE, files |-> <<>>]

\* errorData.error || "Upload failed", or err.message of a rejected fetch
UploadMessage(outcome) ==
  IF outcome.error = <<>> THEN UploadFailedText ELSE outcome.error

\* `Failed to upload "${file.name}": ${err.message}`
LocalUploadError(name, outcome) ==
  <<"Failed to upload", name>> \o UploadMessage(outcome)

\* `"${file.name}" uploaded successfully!`
UploadSuccess(name) == <<name, "uploaded successfully!">>

displayedNames == {files[k].filename : k \in 1..Len(files)}

WithoutFile(list, filename) ==
  SelectSeq(list, LAMBDA f : f.filename # filename)

InitFiles(kind) ==
  /\ panelKind = kind
  /\ files = <<>>
  /\ uploading = FALSE
  /\ fileError = <<>>
  /\ fileSuccess = <<>>
  /\ batch = <<>>
  /\ batchLog = [base |-> <<>>, selected |-> 0, assigned |-> <<>>]
  /\ uploadFetches = <<>>
  /\ listFetches = <<ListFetch("mount")>>
  /\ deleteFetches = <<>>
  /\ serverFiles = <<>>
  /\ nextName = 1

\* variant: the input is not disabled while uploading
SelectFilesWhileUploading(selection) ==
  /\ nextName + Len(selection) - 1 <= MaxUploads
  /\ uploading' = TRUE
  /\ fileError' = <<>>
  /\ fileSuccess' = <<>>
  /\ batch' = selection
  /\ uploadFetches' = Append(uploadFetches, Head(selection))
  /\ batchLog' = [base |-> files, selected |-> Len(selection),
                  assigned |-> <<>>]
  /\ event' = Ev("files:select", NoCourse, selection)
  /\ UNCHANGED <<panelKind, files, listFetches, deleteFetches, serverFiles,
                 nextName>>

\* handleFileSelect up to its first await, the upload of the first file; the
\* input is disabled while uploading
SelectFiles(selection) ==
  /\ ~uploading
  /\ nextName + Len(selection) - 1 <= MaxUploads
  /\ uploading' = TRUE
  /\ fileError' = <<>>
  /\ fileSuccess' = <<>>
  /\ batch' = selection
  /\ uploadFetches' = Append(uploadFetches, Head(selection))
  /\ batchLog' = [base |-> files, selected |-> Len(selection),
                  assigned |-> <<>>]
  /\ event' = Ev("files:select", NoCourse, selection)
  /\ UNCHANGED <<panelKind, files, listFetches, deleteFetches, serverFiles,
                 nextName>>

\* what the store does with the upload of the file at the head of the batch
StoreUpload(outcome) ==
  IF outcome.kind = "accepted"
    THEN /\ serverFiles' =
              Append(serverFiles, UploadedFile(nextName, Head(batch)))
         /\ nextName' = nextName + 1
         /\ batchLog' = [batchLog EXCEPT !.assigned = Append(@, nextName)]
    ELSE UNCHANGED <<serverFiles, nextName, batchLog>>

\* variant: the catch is inside the loop, which goes on with the next file
UploadSettlesRefreshContinues(outcome) ==
  /\ panelKind = "refresh"
  /\ uploadFetches # <<>>
  /\ StoreUpload(outcome)
  /\ uploadFetches' = IF Tail(batch) # <<>>
                        THEN Append(Tail(uploadFetches), Head(Tail(batch)))
                        ELSE Tail(uploadFetches)
  /\ batch' = Tail(batch)
  /\ listFetches' = IF Tail(batch) = <<>>
                      THEN Append(listFetches, ListFetch("batch"))
                      ELSE listFetches
  /\ fileError' = IF outcome.kind = "accepted" THEN fileError
                  ELSE UploadMessage(outcome)
  /\ event' = Ev("files:upload", NoCourse, outcome.kind)
  /\ UNCHANGED <<panelKind, files, fileSuccess, deleteFetches, uploading>>

\* handleFileSelect of the refreshing panel after the await of an upload:
\* the next upload, or after the last one fetchFiles, or the catch
UploadSettlesRefresh(outcome) ==
  /\ panelKind = "refresh"
  /\ uploadFetches # <<>>
  /\ StoreUpload(outcome)
  /\ uploadFetches' = IF outcome.kind = "accepted" /\ Tail(batch) # <<>>
                        THEN Append(Tail(uploadFetches), Head(Tail(batch)))
                        ELSE Tail(uploadFetches)
  /\ IF outcome.kind = "accepted"
       THEN /\ batch' = Tail(batch)
            /\ listFetches' = IF Tail(batch) = <<>>
                                THEN Append(listFetches, ListFetch("batch"))
                                ELSE listFetches
            /\ UNCHANGED <<uploading, fileError>>
       ELSE /\ batch' = <<>>
            /\ fileError' = UploadMessage(outcome)
            /\ uploading' = FALSE
            /\ UNCHANGED listFetches
  /\ event' = Ev("files:upload", NoCourse, outcome.kind)
  /\ UNCHANGED <<panelKind, files, fileSuccess, deleteFetches>>

\* handleFileSelect of the local panel after the await of an upload: the
\* reply is put in front of the list, or the error is shown, and the loop
\* goes on
UploadSettlesLocal(outcome) ==
  /\ panelKind = "local"
  /\ uploadFetches # <<>>
  /\ StoreUpload(outcome)
  /\ uploadFetches' = IF Tail(batch) # <<>>
                        THEN Append(Tail(uploadFetches), Head(Tail(batch)))
                        ELSE Tail(uploadFetches)
  /\ IF outcome.kind = "accepted"
       THEN /\ files' = <<UploadedFile(nextName, Head(batch))>> \o files
            /\ fileSuccess' = UploadSuccess(Head(batch))
            /\ UNCHANGED fileError
       ELSE /\ fileError' = LocalUploadError(Head(batch), outcome)
            /\ UNCHANGED <<files, fileSuccess>>
  /\ batch' = Tail(batch)
  /\ uploading' = (Tail(batch) # <<>>)
  /\ event' = Ev("files:upload", NoCourse, outcome.kind)
  /\ UNCHANGED <<panelKind, listFetches, deleteFetches>>

\* the store answers a list request with the files it holds then
ListAnswered(i) ==
  /\ i \in 1..Len(listFetches)
  /\ ~listFetches[i].answered
  /\ listFetches' = [listFetches EXCEPT ![i].answered = TRUE,
                                        ![i].files = serverFiles]
  /\ event' = Ev("files:listed", NoCourse, <<>>)
  /\ UNCHANGED <<panelKind, files, uploading, fileError, fileSuccess, batch,
                 batchLog, deleteFetches, serverFiles, nextName,
                 uploadFetches>>

\* fetchFiles after its await (the refreshing panel), the mount effect after
\* its fetch (the local panel, which does not look at the status: a body
\* without `files` reads as the empty list)
FileListSettles(i, outcome) ==
  /\ i \in 1..Len(listFetches)
  /\ outcome = "ok" => listFetches[i].answered
  /\ listFetches' = RemoveAt(listFetches, i)
  /\ files' = CASE outcome = "ok" -> listFetches[i].files
                [] outcome = "status" /\ panelKind = "local" -> <<>>
                [] OTHER -> files
  /\ uploading' = IF listFetches[i].purpose = "batch" THEN FALSE
                  ELSE uploading
  /\ event' = Ev("files:list", NoCourse, outcome)
  /\ UNCHANGED <<panelKind, fileError, fileSuccess, batch, batchLog,
                 deleteFetches, serverFiles, nextName,
                 uploadFetches>>

\* handleDeleteFile up to its await
HandleDeleteFile(filename) ==
  /\ panelKind = "refresh"
  /\ filename \in displayedNames
  /\ Len(deleteFetches) + Len(listFetches) < MaxFileDeletes
  /\ deleteFetches' = Append(deleteFetches, filename)
  /\ event' = Ev("files:delete", NoCourse, filename)
  /\ UNCHANGED <<panelKind, files, uploading, fileError, fileSuccess, batch,
                 batchLog, listFetches, serverFiles, nextName,
                 uploadFetches>>

\* handleDeleteFile after its await: fetchFiles where the status is 2xx,
\* which the store gives for a file it holds and removes
DeleteFileSettles(i, outcome) ==
  /\ i \in 1..Len(deleteFetches)
  /\ outcome = "ok" =>
       \E k \in 1..Len(serverFiles) :
         serverFiles[k].filename = deleteFetches[i]
  /\ deleteFetches' = RemoveAt(deleteFetches, i)
  /\ IF outcome = "ok"
       THEN /\ serverFiles' = WithoutFile(serverFiles, deleteFetches[i])
            /\ listFetches' = Append(listFetches, ListFetch("delete"))
       ELSE UNCHANGED <<serverFiles, listFetches>>
  /\ event' = Ev("files:deleted", NoCourse, outcome)
  /\ UNCHANGED <<panelKind, files, uploading, fileError, fileSuccess, batch,
                 batchLog, nextName,
                 uploadFetches>>

\* removeFile of the local panel
RemoveFile(filename) ==
  /\ panelKind = "local"
  /\ filename \in displayedNames
  /\ files' = WithoutFile(files, filename)
  /\ event' = Ev("files:remove", NoCourse, filename)
  /\ UNCHANGED <<panelKind, uploading, fileError, fileSuccess, batch,
                 batchLog, listFetches, deleteFetches, serverFiles,
                 nextName,
                 uploadFetches>>

NextFiles ==
  \/ (\E selection \in Selections : SelectFiles(selection))
       /\ UNCHANGED notFiles
  \/ (\E outcome \in UploadOutcomes : UploadSettlesRefresh(outcome))
       /\ UNCHANGED notFiles
  \/ (\E outcome \in UploadOutcomes : UploadSettlesLocal(outcome))
       /\ UNCHANGED notFiles
  \/ (\E i \in 1..Len(listFetches) : ListAnswered(i)) /\ UNCHANGED notFiles
  \/ (\E i \in 1..Len(listFetches), outcome \in FileOutcomes :
        FileListSettles(i, outcome)) /\ UNCHANGED notFiles
  \/ (\E filename \in displayedNames : HandleDeleteFile(filename))
       /\ UNCHANGED notFiles
  \/ (\E i \in 1..Len(deleteFetches), outcome \in FileOutcomes :
        DeleteFileSettles(i, outcome)) /\ UNCHANGED notFiles
  \/ (\E filename \in displayedNames : RemoveFile(filename))
       /\ UNCHANGED notFiles

----------------------------------------------------------------------------
(* Specifications: one per component, the other components at rest *)

\* DashboardPage: const [selectedDocuments, setSelectedDocuments] =
\* useState([]).  setSelectedDocuments is handed to FileUploadPanel as
\* onDocumentsSelect; neither FileUploadPanel takes props, so nothing calls
\* it and no action of the model changes selectedDocuments.
InitPage == selectedDocuments = <<>>

InitAll ==
  /\ Init /\ InitPage /\ InitAuth /\ InitGenerate /\ InitReview
  /\ InitMistakes /\ InitPlan /\ InitFiles("refresh")

Spec == InitAll /\ [][Next]_allVars

SpecAuth == InitAll /\ [][NextAuth]_allVars

SpecGenerate == InitAll /\ [][NextGenerate]_allVars

\* an id that is not the id of any course
UnknownCourseId == "no-such-course"

\* the chat page, with setSelectedCourseId also given an id outside COURSES
NextCourses ==
  \/ Next
  \/ SelectCourse(UnknownCourseId) /\ UNCHANGED notChat

SpecCourses == InitAll /\ [][NextCourses]_allVars

SpecMistakes == InitAll /\ [][NextMistakes]_allVars

SpecPlan == InitAll /\ [][NextPlan]_allVars

\* either file panel on the page
InitFilePanels ==
  /\ Init /\ InitPage /\ InitAuth /\ InitGenerate /\ InitReview
  /\ InitMistakes /\ InitPlan
  /\ \E kind \in PanelKinds : InitFiles(kind)

SpecFiles == InitFilePanels /\ [][NextFiles]_allVars

TypeOK ==
  /\ selectedCourseId \in CourseIds
  /\ draft \in Drafts
  /\ Len(messages) >= 1
  /\ isLoading \in BOOLEAN
  /\ fetches \in 0..MaxSends
  /\ now \in StartClock..(StartClock + MaxTicks)

----------------------------------------------------------------------------
(* Steps and shapes the properties speak about *)

\* the step changes the course ChatPanel is given
SwitchStep ==
  SelectedCourseOf(selectedCourseId').id # SelectedCourseOf(selectedCourseId).id

\* the step is a run of handleSend
SubmitStep == event'.kind \in {"send", "sendIgnored"}

\* the step settles a chat request
SettleStep == event'.kind \in ({"responseOk"} \cup FailureKinds)

IsBlank(text) == \A k \in 1..Len(text) : text[k] \in WhiteSpace

\* the log after the step is the log before it plus one message at the end
ExtendedByOne ==
  /\ Len(messages') = Len(messages) + 1
  /\ SubSeq(messages', 1, Len(messages)) = messages

LastMessage(log) == log[Len(log)]

----------------------------------------------------------------------------
\* C1: every course switch, after a log of any length, leaves the log as
\* exactly one message, the seeded assistant greeting.
C1_SwitchResetsLog ==
  [][SwitchStep =>
       /\ Len(messages') = 1
       /\ messages'[1].sender = "assistant"
       /\ messages'[1].text = GreetingText
       /\ messages'[1].id = 1]_vars

\* a switch made after a complete exchange, the log being the greeting alone
C1_Witness ==
  /\ event.kind = "selectCourse"
  /\ selectedCourse.id # COURSES[1].id
  /\ sends >= 1
  /\ pending = <<>>
  /\ messages = <<SeedMessage>>

\* C2 (as stated): every course switch leaves the conversation idle, the
\* loading flag false, also when a chat request is in flight.
C2_SwitchLeavesIdle ==
  [][SwitchStep => ~isLoading']_vars

\* C2 (amended): a course switch leaves the loading flag and the requests in
\* flight as they were; the conversation is idle after the switch exactly
\* when no request is in flight, and otherwise a submit is still ignored.
C2_SwitchKeepsLoading ==
  [][SwitchStep =>
       /\ isLoading' = isLoading
       /\ (isLoading' <=> pending' # <<>>)
       /\ (isLoading' => \A d \in Drafts : SendGuard(Trim(d), isLoading'))
       /\ (~isLoading' =>
             \A d \in Drafts : ~IsBlank(d) => ~SendGuard(Trim(d), isLoading'))
    ]_vars

\* a switch made while a request is in flight: the flag is still raised
C2_Witness ==
  /\ event.kind = "selectCourse"
  /\ selectedCourse.id # COURSES[1].id
  /\ isLoading
  /\ Len(pending) = 1
  /\ messages = <<SeedMessage>>

\* C3: a switch does not cancel the request in flight, and when a request
\* settles, exactly one assistant message is appended to the log current at
\* that moment, also when the request was issued for another course.
C3_StaleReplyAppended ==
  [][/\ SwitchStep => pending' = pending
     /\ SettleStep =>
          /\ ExtendedByOne
          /\ LastMessage(messages').sender = "assistant"
          /\ Len(pending') = Len(pending) - 1]_vars

\* a reply to a request of the first course lands in the reset log of another
C3_Witness ==
  /\ event.kind = "responseOk"
  /\ event.course = COURSES[1].name
  /\ selectedCourse.name # COURSES[1].name
  /\ Len(messages) = 2
  /\ messages[1] = SeedMessage
  /\ messages[2].sender = "assistant"
  /\ messages[2].text = event.reply

\* C4: a submit with an empty or whitespace-only draft changes neither the
\* log, the loading flag nor the draft, and issues no network call.
C4_BlankSubmitIsNoOp ==
  [][(SubmitStep /\ IsBlank(draft)) =>
       UNCHANGED <<messages, isLoading, draft, pending, fetches>>]_vars

\* a whitespace-only draft was submitted and ignored
C4_Witness ==
  /\ event.kind = "sendIgnored"
  /\ draft # <<>>
  /\ IsBlank(draft)
  /\ ~isLoading

\* C5: at most one chat request is in flight, the loading flag is raised
\* exactly while one is, and a submit made meanwhile is a no-op.
C5_OneRequestInFlight ==
  /\ [](Len(pending) <= 1 /\ (isLoading <=> pending # <<>>))
  /\ [][(SubmitStep /\ isLoading) =>
          UNCHANGED <<messages, isLoading, pending, fetches>>]_vars

\* a submit ignored while the request of an earlier one is in flight
C5_Witness ==
  /\ event.kind = "sendIgnored"
  /\ isLoading
  /\ Len(pending) = 1
  /\ LastMessage(messages).sender = "student"

\* C6: a chat request that completes with a 2xx reply appends exactly one
\* message, from the assistant, whose text is the response field of the
\* reply, and the conversation is idle again.
C6_ReplyAppended ==
  [][event'.kind = "responseOk" =>
       /\ ExtendedByOne
       /\ LastMessage(messages').sender = "assistant"
       /\ LastMessage(messages').text = event'.reply
       /\ ~isLoading'
       /\ pending' = <<>>]_vars

\* a reply has been appended after the student's message
C6_Witness ==
  /\ event.kind = "responseOk"
  /\ event.reply = <<"answer">>
  /\ Len(messages) = 3
  /\ messages[2].sender = "student"
  /\ messages[3] = [id |-> now + 1, sender |-> "assistant",
                    text |-> <<"answer">>]
  /\ ~isLoading

\* C7: a chat request that fails, by a rejected fetch or a status outside
\* 2xx, appends the fixed fallback message once, issues no further network
\* call, and the conversation is idle again.
C7_FailureAppendsFallback ==
  /\ [](fetches = sends)
  /\ [][event'.kind \in FailureKinds =>
          /\ ExtendedByOne
          /\ LastMessage(messages').sender = "assistant"
          /\ LastMessage(messages').text = FallbackText
          /\ fetches' = fetches
          /\ Len(pending') = Len(pending) - 1
          /\ ~isLoading'
          /\ pending' = <<>>]_vars

\* the request of the only submit failed with a status outside 2xx
C7_Witness ==
  /\ event.kind = "status"
  /\ sends = 1
  /\ fetches = 1
  /\ Len(messages) = 3
  /\ messages[2].sender = "student"
  /\ messages[3].text = FallbackText
  /\ ~isLoading

\* C8: the conversation_history of an accepted submit is, in log order,
\* every message of the log before the submit but the seed greeting, as
\* role/content pairs, followed by the new message as a user entry.
C8_HistoryIsPriorLog ==
  [][event'.kind = "send" =>
       LET body == LastMessage(pending')
           history == body.conversation_history
           n == Len(messages)
       IN /\ Len(pending') = Len(pending) + 1
          /\ Len(history) = n
          /\ \A k \in 1..(n - 1) :
               /\ history[k].content = messages[k + 1].text
               /\ messages[k + 1].sender = "student"
                    => history[k].role = "user"
               /\ messages[k + 1].sender = "assistant"
                    => history[k].role = "assistant"
          /\ history[n].role = "user"
          /\ history[n].content = LastMessage(messages').text
          /\ history[n].content = body.message]_vars

\* a submit whose history holds an earlier exchange and the new message
C8_Witness ==
  /\ event.kind = "send"
  /\ Len(pending) = 1
  /\ Len(pending[1].conversation_history) = 3
  /\ pending[1].conversation_history[1].role = "user"
  /\ pending[1].conversation_history[2].role = "assistant"
  /\ pending[1].conversation_history[3].role = "user"

\* C9: in every log the message ids are pairwise distinct and strictly
\* increasing in log order.
C9_IdsStrictlyIncreasing ==
  \A j \in 1..Len(messages) : \A k \in 1..(j - 1) :
     messages[k].id < messages[j].id

\* C10: a step that is not a course switch leaves the log unchanged or
\* extends it by one message at the end, and the first message of the log
\* is always the seeded assistant greeting.
C10_AppendOnly ==
  /\ [](Len(messages) >= 1 /\ messages[1] = SeedMessage)
  /\ [][~SwitchStep => (messages' = messages \/ ExtendedByOne)]_vars

\* a log grown by a submit and a settled request, the greeting still first
C10_Witness ==
  /\ Len(messages) = 5
  /\ messages[1] = SeedMessage
  /\ messages[2].sender = "student"
  /\ messages[3].sender = "assistant"
  /\ messages[4].sender = "student"
  /\ messages[5].sender = "assistant"

----------------------------------------------------------------------------
(* The session gate *)

\* the step is a run of LoginPage.handleSubmit
LoginStep == event'.kind \in {"success", "InvalidCredentials", "MissingFields"}

ExactDemoPair == email = <<"demo@myapp.com">> /\ password = <<"abcd">>

\* the emails that read demo@myapp.com once trimmed and lower-cased
DemoEmailSpellings ==
  { <<"demo@myapp.com">>, <<"DEMO@MYAPP.COM">>, <<"Demo@MyApp.com">>,
    <<" ", "demo@myapp.com", " ">> }

\* C11 (as stated): a login succeeds only for the exact demo pair; every
\* other pair of inputs is rejected and leaves session storage unchanged.
C11_OnlyExactPair ==
  [][(LoginStep /\ ~ExactDemoPair) =>
       /\ event'.kind # "success"
       /\ sessionStorage' = sessionStorage]_allVars

\* C11 (amended): a login succeeds exactly when the email, trimmed and
\* lower-cased, is demo@myapp.com and the password is exactly abcd; every
\* other pair is rejected, with the invalid-credentials message or, when a
\* trimmed field is empty, the missing-fields message, and leaves session
\* storage unchanged.
C11_OnlyNormalisedPair ==
  [][LoginStep =>
       IF email \in DemoEmailSpellings /\ password = <<"abcd">>
       THEN /\ event'.kind = "success"
            /\ IsAuthenticatedIn(sessionStorage')
       ELSE /\ event'.kind \in {"InvalidCredentials", "MissingFields"}
            /\ error' \in {InvalidCredentialsError, MissingFieldsError}
            /\ (error' = MissingFieldsError
                  <=> (IsBlank(email) \/ IsBlank(password)))
            /\ sessionStorage' = sessionStorage
            /\ location' = "/"]_allVars

\* a login with the demo email typed between spaces has succeeded
C11_Witness ==
  /\ event.kind = "success"
  /\ event.reply = <<" ", "demo@myapp.com", " ">>
  /\ isAuthenticated
  /\ sessionStorage["student_email"] = <<"demo@myapp.com">>
  /\ location = "/dashboard"

\* C12: the dashboard is shown only while the session flag is set, opening
\* a path with the flag absent ends on the login page, and the flag becomes
\* set only by a successful login, which also stores the email.
C12_DashboardNeedsFlag ==
  /\ [](location = "/dashboard" => isAuthenticated)
  /\ [][/\ (event'.kind = "navigate" /\ ~isAuthenticated) => location' = "/"
        /\ (~isAuthenticated /\ IsAuthenticatedIn(sessionStorage')) =>
             /\ event'.kind = "success"
             /\ "student_email" \in DOMAIN sessionStorage'
             /\ sessionStorage'["student_email"] = <<"demo@myapp.com">>
       ]_allVars

\* after a login and a logout, opening a path ends on the login page
C12_Witness ==
  /\ event.kind = "navigate"
  /\ "student_email" \in DOMAIN sessionStorage
  /\ ~isAuthenticated
  /\ location = "/"

----------------------------------------------------------------------------
(* The course registry *)

\* C13: exactly one course of the list is selected in every state: the
\* first one initially, and a member of the list after the selection of any
\* id, also of an id that is not in the list.
C13_OneCourseSelected ==
  /\ selectedCourse = COURSES[1]
  /\ [](/\ Cardinality({i \in 1..Len(COURSES) : COURSES[i] = selectedCourse})
             = 1
        /\ (selectedCourseId \in CourseIds
              => selectedCourse.id = selectedCourseId)
        /\ (selectedCourseId \notin CourseIds => selectedCourse = COURSES[1]))

\* an id outside the list has been selected: the first course is shown
C13_Witness ==
  /\ event.kind = "selectCourse"
  /\ selectedCourseId = UnknownCourseId
  /\ selectedCourse = COURSES[1]

----------------------------------------------------------------------------
(* Generation requests *)

GuideStep == event'.kind \in {"guide:start", "guide:settled"}

ExamStep == event'.kind \in {"exam:start", "exam:settled"}

\* the request failed: fetch rejected, or the status is outside 2xx
GenFailed(outcome) == outcome.settled = "rejected" \/ ~outcome.ok

\* C14: a step of the study guide (start, completion or failure) leaves the
\* loading flag and the result of the practice exam alone, and conversely;
\* each can be started while the other is in flight.
C14_GenerationsIndependent ==
  /\ [][/\ GuideStep => UNCHANGED <<practiceExam, loadingExam>>
        /\ ExamStep => UNCHANGED <<studyGuide, loadingGuide>>]_allVars
  /\ [](/\ (loadingExam /\ ~loadingGuide)
              => ENABLED (GenerateStudyGuide /\ UNCHANGED notGen)
        /\ (loadingGuide /\ ~loadingExam)
              => ENABLED (GeneratePracticeExam /\ UNCHANGED notGen))

\* the study guide has completed while the practice exam is in flight
C14_Witness ==
  /\ event.kind = "guide:settled"
  /\ studyGuide = <<"generated text">>
  /\ ~loadingGuide
  /\ loadingExam
  /\ practiceExam = <<>>
  /\ Len(genPending) = 1
  /\ genPending[1].kind = "exam"

\* C15: a generation request that fails, by a rejected fetch or a status
\* outside 2xx, leaves exactly "Failed to generate." in its result slot and
\* is not issued again.
C15_FailureShowsFixedText ==
  [][/\ (event'.kind = "guide:settled" /\ GenFailed(event'.reply)) =>
          /\ studyGuide' = FailedToGenerate
          /\ Len(genPending') = Len(genPending) - 1
     /\ (event'.kind = "exam:settled" /\ GenFailed(event'.reply)) =>
          /\ practiceExam' = FailedToGenerate
          /\ Len(genPending') = Len(genPending) - 1]_allVars

ReviewShown(d) ==
  /\ prompts' = (IF d.review_prompts.present THEN d.review_prompts.items
                 ELSE <<>>)

\* C16 (as stated): the prompts list shows review_prompts, the text slot
\* shows full_text when it is present, and message is shown only when
\* review_prompts is missing or empty and never in place of a full_text.
C16_MessageOnlyFallback ==
  [][(event'.kind = "review:settled" /\ event'.reply.json) =>
       LET d == event'.reply.data
       IN /\ ReviewShown(d)
          /\ d.full_text # <<>> => fullText' = d.full_text
          /\ (d.message # <<>> /\ fullText' = d.message) =>
               /\ Len(d.review_prompts.items) = 0
               /\ d.full_text = <<>>]_allVars

\* C16 (amended): the prompts list shows review_prompts; when message is
\* present and review_prompts is missing or empty the text slot shows
\* message, also in place of a present full_text; otherwise it shows
\* full_text when that is present and nothing when it is not.
C16_MessageWhenNoPrompts ==
  [][(event'.kind = "review:settled" /\ event'.reply.json) =>
       LET d == event'.reply.data
           noPrompts == d.review_prompts.items = <<>>
       IN /\ ReviewShown(d)
          /\ (d.message # <<>> /\ noPrompts) => fullText' = d.message
          /\ (d.message = <<>> \/ ~noPrompts) => fullText' = d.full_text
     ]_allVars

\* a reply with full_text, message and no prompts: the message is shown
C16_Witness ==
  /\ event.kind = "review:settled"
  /\ event.reply.json
  /\ event.reply.data.full_text = <<"full text">>
  /\ event.reply.data.message = <<"message">>
  /\ event.reply.data.review_prompts.items = <<>>
  /\ fullText = <<"message">>
  /\ ~reviewLoading

----------------------------------------------------------------------------
(* Mistakes list *)

\* the positions of `list` whose entry does not carry the id
KeptPositions(list, id) == {k \in 1..Len(list) : list[k].id # id}

\* the n-th smallest member of a set of positions
NthPosition(positions, n) ==
  CHOOSE k \in positions : Cardinality({j \in positions : j < k}) = n - 1

\* C17: a DELETE for an id answered with a 2xx status removes from the
\* displayed list exactly the entries with that id, the other entries staying
\* as they were and in their order; a DELETE that fails (another status, or a
\* rejected fetch) leaves the displayed list unchanged.
C17_DeleteRemovesExactlyId ==
  [][(event'.kind = "delete:ok" =>
        LET kept == KeptPositions(mistakes, event'.reply)
        IN /\ Len(mistakes') = Cardinality(kept)
           /\ \A n \in 1..Len(mistakes') :
                mistakes'[n] = mistakes[NthPosition(kept, n)])
     /\ (event'.kind \in {"delete:status", "delete:rejected"} =>
           mistakes' = mistakes)]_allVars

\* a successful delete has removed two entries that shared the id and kept
\* the one between them
C17_Witness ==
  /\ event.kind = "delete:ok"
  /\ event.reply = 2
  /\ mistakes = << Mistake(1, "Calculus 1", "q1") >>

----------------------------------------------------------------------------
(* Study plan *)

\* the step is a run of savePlan up to its request
SaveStep == event'.kind = "plan:save"

\* the plan in the body of the request the step issues
SentPlan == planSaves'[Len(planSaves')].plan

\* the step settles a save with a 2xx status, and what is kept is the plan of
\* its request, in the store and in `plan` of the instance that sent it
StoresSentPlan ==
  \E i \in 1..Len(planSaves) :
    /\ planSaves' = RemoveAt(planSaves, i)
    /\ serverPlan' = planSaves[i].plan
    /\ planSaves[i].mount = planMount => plan' = planSaves[i].plan

\* t is `text` without the white space at its two ends
IsTrimOf(t, text) ==
  \E a, b \in 0..Len(text) :
    /\ a + b <= Len(text)
    /\ t = SubSeq(text, a + 1, Len(text) - b)
    /\ \A k \in 1..a : text[k] \in WhiteSpace
    /\ \A k \in (Len(text) - b + 1)..Len(text) : text[k] \in WhiteSpace
    /\ t # <<>> => (t[1] \notin WhiteSpace /\ t[Len(t)] \notin WhiteSpace)

\* C18 as stated: savePlan with a text that is not valid JSON sends and
\* stores {notes: t} with t the edited text itself, white space at its ends
\* included; with a text that is valid JSON it stores the parsed value.
C18_NotesHoldOriginalText ==
  [][(SaveStep =>
        IF JSONParse(editing).ok
          THEN SentPlan = JSONParse(editing).val
          ELSE SentPlan = Notes(editing))
     /\ ((event'.kind = "plan:saved" /\ event'.reply = "ok") =>
           StoresSentPlan)]_allVars

\* C18, amended: savePlan with a text that is not valid JSON sends and, on a
\* 2xx answer, stores {notes: t} with t the edited text without its leading
\* and trailing white space; with a text that is valid JSON it sends and
\* stores the parsed value.
C18_NotesHoldTrimmedText ==
  [][(SaveStep =>
        IF JSONParse(editing).ok
          THEN SentPlan = JSONParse(editing).val
          ELSE /\ SentPlan.t = "obj"
               /\ Len(SentPlan.v) = 1
               /\ SentPlan.v[1].k = <<"notes">>
               /\ SentPlan.v[1].val.t = "str"
               /\ IsTrimOf(SentPlan.v[1].val.v, editing))
     /\ ((event'.kind = "plan:saved" /\ event'.reply = "ok") =>
           StoresSentPlan)]_allVars

\* a text with white space at both ends has been saved and the store holds
\* its notes
C18_Witness ==
  /\ event.kind = "plan:saved"
  /\ event.reply = "ok"
  /\ editing = <<" ", "hello", "\n">>
  /\ serverPlan = Notes(<<"hello">>)
  /\ plan = serverPlan

\* the step saves the text a load has just put in the textarea, the store
\* holding a plan
ReloadSaveStep ==
  /\ event.kind = "plan:loaded"
  /\ event.reply = "ok"
  /\ SaveStep
  /\ serverPlan # JUndefined

\* C19 as stated: whatever plan a save has stored (an object, an array, a
\* string, a number, a boolean, null, {notes: text}), loading it in a new
\* panel and saving the loaded text unedited sends a plan equal to it.
C19_RoundTripEveryPlan ==
  [][ReloadSaveStep => SentPlan = serverPlan]_allVars

\* the plans the textarea shows as their JSON text
ShownAsJson(value) == Truthy(value) /\ value.t # "str"

\* C19, amended: a stored plan that is an object, an array, a number other
\* than zero or true is sent again unchanged when it is loaded in a new panel
\* and the loaded text is saved unedited.
C19_RoundTripShownAsJson ==
  [][(ReloadSaveStep /\ ShownAsJson(serverPlan)) =>
       SentPlan = serverPlan]_allVars

\* a second panel has loaded a stored object and sent it again
C19_Witness ==
  /\ event.kind = "plan:save"
  /\ planMount = 2
  /\ serverPlan = JObj(<<Member(<<"goals">>, JArr(<<>>))>>)
  /\ editing = Stringify(serverPlan, 0)
  /\ planSaves = <<[mount |-> 2, plan |-> serverPlan]>>

----------------------------------------------------------------------------
(* File panels *)

\* the step ends a batch of uploads
BatchEnds == uploading /\ ~uploading'

\* every file of the batch was accepted by the store
AllAccepted == Len(batchLog'.assigned) = batchLog'.selected

\* the filenames the store assigned to the files of the batch
AssignedNames == {batchLog'.assigned[k] : k \in 1..Len(batchLog'.assigned)}

\* C20: when the N selected files have all been accepted, the displayed list
\* has gained exactly N entries over the list shown at the selection: one
\* per uploaded file under the filename the store assigned, which no other
\* entry carries.
C20_ListGainsOnePerUpload ==
  [][(BatchEnds /\ AllAccepted) =>
       /\ Cardinality(AssignedNames) = batchLog'.selected
       /\ \A name \in AssignedNames :
            Cardinality({k \in 1..Len(files') : files'[k].filename = name})
              = 1
       /\ SelectSeq(files', LAMBDA f : f.filename \notin AssignedNames)
            = batchLog'.base]_allVars

----------------------------------------------------------------------------
(* Uploads of a batch, one at a time                                      *)

\* C21: in both file panels at most one upload request is in flight in
\* every state; a selection starts a batch only while the uploading flag is
\* clear and no upload is in flight; and the request of the next file of a
\* batch is issued by the step that settles the request of the file before
\* it, which leaves that next request as the only one in flight.
C21_UploadsSequential ==
  [][ (Len(uploadFetches') <= 1)
      /\ (uploadFetches' # <<>> => uploading')
      /\ (event'.kind = "files:select" =>
            ~uploading /\ uploadFetches = <<>>
              /\ uploadFetches' = <<Head(batch')>>)
      /\ (event'.kind = "files:upload" /\ uploadFetches' # <<>> =>
            uploadFetches = <<Head(batch)>>
              /\ uploadFetches' = <<Head(Tail(batch))>>
              /\ batch' = Tail(batch)) ]_allVars

\* the second file of a batch is being uploaded, the first one settled
C21_Witness ==
  /\ uploading
  /\ event.kind = "files:upload"
  /\ uploadFetches = <<"b.pdf">>
  /\ batch = <<"b.pdf">>

----------------------------------------------------------------------------
(* The displayed list and the store                                       *)

\* the step applies the files array of a list request that succeeded
AppliesListFetch ==
  /\ event'.kind = "files:list"
  /\ event'.reply = "ok"
  /\ \E i \in 1..Len(listFetches) :
       /\ listFetches[i].answered
       /\ listFetches' = RemoveAt(listFetches, i)
       /\ files' = listFetches[i].files

\* C22: the displayed file list changes only by being replaced with the
\* files array of a successful list fetch: no upload and no removal changes
\* it locally, and an entry disappears only in such a replacement, which for
\* a removal follows the DELETE request of the file.
C22_ListChangesOnlyByRefresh ==
  [][files' # files => AppliesListFetch]_allVars

----------------------------------------------------------------------------
(* Failures of the network actions                                        *)

\* what MistakesPanel keeps in its state
mistakesPanelState == <<mistakes, mistakesLoading, filterCourse>>

\* C23: a network action that fails leaves a user-facing error string in
\* the state of its component, so that no failure is silent; for the DELETE
\* of a mistake: the step that settles a refused or rejected DELETE changes
\* the state of MistakesPanel.
C23_FailedDeleteLeavesMessage ==
  [][event'.kind \in {"delete:status", "delete:rejected"} =>
       mistakesPanelState' # mistakesPanelState]_allVars

----------------------------------------------------------------------------
(* The loading flags, with every request settling                         *)

\* The panels share no state, so each flag is followed in the behaviours of
\* its own panel, the other panels staying as they were mounted.
chatUntouched ==
  chatState = <<COURSES[1].id, <<>>, <<SeedMessage>>, FALSE, <<>>, 0, 0,
                StartClock>>

genUntouched == InitGenerate /\ InitReview

planUntouched == InitPlan

filesUntouched == InitFiles(panelKind)

ChatAlone ==
  genUntouched /\ planUntouched /\ filesUntouched /\ panelKind = "refresh"

GenerateAlone ==
  chatUntouched /\ planUntouched /\ filesUntouched /\ panelKind = "refresh"

PlanAlone ==
  chatUntouched /\ genUntouched /\ filesUntouched /\ panelKind = "refresh"

FilesAlone == chatUntouched /\ genUntouched /\ planUntouched

\* the inputs of the user that the flags are followed with
LiveDrafts == { <<"a">> }

LiveCourseIds == { COURSES[1].id, COURSES[2].id }

LiveTopics == { <<"limits">> }

LiveEditTexts == { <<"hello">> }

\* an upload that is stored and one that fails
LiveUploadOutcomes == {o \in UploadOutcomes : o.kind # "refused"}

\* the settling of the requests: the replies of the backend
ChatSettles ==
  /\ ChatAlone
  /\ \/ \E i \in 1..Len(pending), reply \in Replies : FetchOk(i, reply)
     \/ \E i \in 1..Len(pending), kind \in FailureKinds : FetchFail(i, kind)
  /\ UNCHANGED notChat

GuideSettles ==
  /\ GenerateAlone
  /\ \E i \in 1..Len(genPending), outcome \in GenOutcomes :
       StudyGuideSettles(i, outcome)
  /\ UNCHANGED notGen

ExamSettles ==
  /\ GenerateAlone
  /\ \E i \in 1..Len(genPending), outcome \in GenOutcomes :
       PracticeExamSettles(i, outcome)
  /\ UNCHANGED notGen

WeeklyReviewSettles ==
  /\ GenerateAlone
  /\ \E outcome \in ReviewOutcomes : ReviewSettles(outcome)
  /\ UNCHANGED notGen

PlanLoadSettles ==
  /\ PlanAlone
  /\ \E i \in 1..Len(planLoads), outcome \in PlanOutcomes :
       FetchPlanSettles(i, outcome)
  /\ UNCHANGED notPlan

PlanSaveSettles ==
  /\ PlanAlone
  /\ \E i \in 1..Len(planSaves), outcome \in PlanOutcomes :
       SavePlanSettles(i, outcome)
  /\ UNCHANGED notPlan

UploadSettles ==
  /\ FilesAlone
  /\ \E outcome \in LiveUploadOutcomes :
       UploadSettlesRefresh(outcome) \/ UploadSettlesLocal(outcome)
  /\ UNCHANGED notFiles

ListIsAnswered ==
  /\ FilesAlone
  /\ \E i \in 1..Len(listFetches) : ListAnswered(i)
  /\ UNCHANGED notFiles

FileListIsSettled ==
  /\ FilesAlone
  /\ \E i \in 1..Len(listFetches), outcome \in FileOutcomes :
       FileListSettles(i, outcome)
  /\ UNCHANGED notFiles

\* what the user does
UserActs ==
  \/ ChatAlone /\ (\E value \in LiveDrafts : SetDraft(value))
       /\ UNCHANGED notChat
  \/ ChatAlone /\ HandleSend /\ UNCHANGED notChat
  \/ ChatAlone /\ (\E cid \in LiveCourseIds : SelectCourse(cid))
       /\ UNCHANGED notChat
  \/ GenerateAlone /\ (\E value \in LiveTopics : SetTopic(value))
       /\ UNCHANGED notGen
  \/ GenerateAlone /\ GenerateStudyGuide /\ UNCHANGED notGen
  \/ GenerateAlone /\ GeneratePracticeExam /\ UNCHANGED notGen
  \/ GenerateAlone /\ GenerateReview /\ UNCHANGED notGen
  \/ PlanAlone /\ MountPlanPanel /\ UNCHANGED notPlan
  \/ PlanAlone /\ (\E value \in LiveEditTexts : SetEditing(value))
       /\ UNCHANGED notPlan
  \/ PlanAlone /\ SavePlan /\ UNCHANGED notPlan
  \/ FilesAlone /\ (\E selection \in Selections : SelectFiles(selection))
       /\ UNCHANGED notFiles

NextLive ==
  \/ UserActs
  \/ ChatSettles
  \/ GuideSettles
  \/ ExamSettles
  \/ WeeklyReviewSettles
  \/ PlanLoadSettles
  \/ PlanSaveSettles
  \/ UploadSettles
  \/ ListIsAnswered
  \/ FileListIsSettled

\* every issued network call eventually resolves or rejects
Fairness ==
  /\ WF_allVars(ChatSettles)
  /\ WF_allVars(GuideSettles)
  /\ WF_allVars(ExamSettles)
  /\ WF_allVars(WeeklyReviewSettles)
  /\ WF_allVars(PlanLoadSettles)
  /\ WF_allVars(PlanSaveSettles)
  /\ WF_allVars(UploadSettles)
  /\ WF_allVars(ListIsAnswered)
  /\ WF_allVars(FileListIsSettled)

SpecLive == InitFilePanels /\ [][NextLive]_allVars /\ Fairness

\* with its flag clear, the action passes the guard of its handler or finds
\* its button enabled (a send needs a draft that is not blank, as before
\* the flag was set)
Resubmittable ==
  /\ ~isLoading /\ Trim(draft) # <<>> => ~SendGuard(Trim(draft), isLoading)
  /\ ~loadingGuide => ENABLED GenerateStudyGuide
  /\ ~loadingExam => ENABLED GeneratePracticeExam
  /\ ~reviewLoading => ENABLED GenerateReview
  /\ ~uploading /\ nextName <= MaxUploads => ENABLED SelectFiles(<<"a.pdf">>)

\* C24: with every issued request settling, each loading flag that is set
\* (isLoading, loadingGuide, loadingExam, the weekly review's loading,
\* saving, uploading) is eventually false again, whatever the outcome of
\* the request, and with the flag false the same action can be submitted
\* again.
C24_FlagsReturnToFalse ==
  /\ []Resubmittable
  /\ isLoading ~> ~isLoading
  /\ loadingGuide ~> ~loadingGuide
  /\ loadingExam ~> ~loadingExam
  /\ reviewLoading ~> ~reviewLoading
  /\ saving ~> ~saving
  /\ uploading ~> ~uploading

\* isLoading is false again after the second send has failed
C24_Witness ==
  /\ ~isLoading
  /\ event.kind \in FailureKinds
  /\ sends = 2

----------------------------------------------------------------------------
(* The documents sent with a chat request                                 *)

\* ChatPanel and FileUploadPanel side by side on DashboardPage
NextDocuments ==
  \/ (\E value \in LiveDrafts : SetDraft(value)) /\ UNCHANGED notChat
  \/ HandleSend /\ UNCHANGED notChat
  \/ (\E i \in 1..Len(pending), reply \in Replies : FetchOk(i, reply))
       /\ UNCHANGED notChat
  \/ (\E selection \in Selections : SelectFiles(selection))
       /\ UNCHANGED notFiles
  \/ (\E outcome \in LiveUploadOutcomes : UploadSettlesRefresh(outcome))
       /\ UNCHANGED notFiles
  \/ (\E outcome \in LiveUploadOutcomes : UploadSettlesLocal(outcome))
       /\ UNCHANGED notFiles
  \/ (\E i \in 1..Len(listFetches) : ListAnswered(i)) /\ UNCHANGED notFiles
  \/ (\E i \in 1..Len(listFetches), outcome \in FileOutcomes :
        FileListSettles(i, outcome)) /\ UNCHANGED notFiles

SpecDocuments == InitFilePanels /\ [][NextDocuments]_allVars

\* the elements of an array
ElementsOf(list) == {list[k] : k \in 1..Len(list)}

\* C25: the document_filenames sent with a chat request are the filenames
\* the file panel shows at that moment, reported upward through
\* onDocumentsSelect; they are empty only when the panel shows no file.
C25_RequestNamesTheShownFiles ==
  [][event'.kind = "send" =>
       ElementsOf(pending'[Len(pending')].document_filenames)
         = displayedNames]_allVars

----------------------------------------------------------------------------
(* The roles of a conversation history                                    *)

\* user, assistant, user, ..., user
StrictlyAlternates(history) ==
  /\ Len(history) % 2 = 1
  /\ \A k \in 1..Len(history) :
       history[k].role = IF k % 2 = 1 THEN "user" ELSE "assistant"

----------------------------------------------------------------------------
(* A failed upload in the refreshing panel                                *)

\* the step settles an upload of the refreshing panel as a failure
RefreshUploadFails ==
  /\ panelKind = "refresh"
  /\ event'.kind = "files:upload"
  /\ event'.reply # "accepted"

\* the message of a failure that settles as `kind`
FailureMessages(kind) ==
  { IF outcome.error = <<>> THEN UploadFailedText ELSE outcome.error :
      outcome \in {o \in UploadOutcomes : o.kind = kind} }

\* C27: in the refreshing panel the first failed upload ends the batch: the
\* step that settles it issues no upload request for the files left and no
\* list request, leaves the displayed list and the store as they were,
\* sets the error text to the message of that failure and clears uploading.
C27_FailedUploadAbortsBatch ==
  [][RefreshUploadFails =>
       /\ uploadFetches' = <<>>
       /\ batch' = <<>>
       /\ listFetches' = listFetches
       /\ files' = files
       /\ serverFiles' = serverFiles
       /\ fileError' \in FailureMessages(event'.reply)
       /\ ~uploading']_allVars

\* the first of two selected files has been refused: nothing was stored
\* and the second one is not uploaded
C27_Witness ==
  /\ panelKind = "refresh"
  /\ event.kind = "files:upload"
  /\ event.reply = "refused"
  /\ batchLog.selected = 2
  /\ batchLog.assigned = <<>>
  /\ uploadFetches = <<>>
  /\ ~uploading

----------------------------------------------------------------------------
(* The list requests of MistakesPanel and the filter                      *)

ListSettleStep == event'.kind \in {"list:stale", "list:settled"}

\* C28: a list response of MistakesPanel is applied only if it answers the
\* request issued for the latest filter: the step that settles any other
\* request, in whatever order, leaves the displayed list and the loading
\* flag as they were, and the step that settles the latest request, which
\* is for the current filter, shows its mistakes, or the empty list if it
\* failed.
C28_OnlyLatestListApplied ==
  [][ListSettleStep =>
        \E i \in 1..Len(listRequests) :
          /\ listRequests' = RemoveAt(listRequests, i)
          /\ event'.course = listRequests[i].course
          /\ IF i = Len(listRequests) /\ ~listRequests[i].cancelled
               THEN /\ listRequests[i].course = filterCourse
                    /\ mistakes' = IF event'.reply.ok
                                     THEN event'.reply.mistakes ELSE <<>>
                    /\ ~mistakesLoading'
               ELSE /\ mistakes' = mistakes
                    /\ mistakesLoading' = mistakesLoading]_allVars

\* the request of the first filter settles last, with mistakes that are not
\* shown: the list is the one of the second filter
C28_Witness ==
  /\ event.kind = "list:stale"
  /\ event.course = ""
  /\ filterCourse = "Calculus 1"
  /\ event.reply.ok
  /\ event.reply.mistakes # mistakes
  /\ mistakes # <<>>
  /\ listRequests = <<>>

----------------------------------------------------------------------------
(* Logout                                                                 *)

\* C29: handleLogout removes the student_auth entry and nothing else: right
\* after it isAuthenticated() is false and the login view is shown, the
\* student_email entry is in the store with the value it had, and from then
\* on every visit of the dashboard route ends on the login view, until a
\* successful submit of the login form authenticates again.
C29_LogoutRemovesOnlyAuthFlag ==
  [][ (event'.kind = "logout" =>
         /\ ~isAuthenticated'
         /\ location' = "/"
         /\ DOMAIN sessionStorage' = DOMAIN sessionStorage \ {"student_auth"}
         /\ "student_email" \in DOMAIN sessionStorage'
         /\ sessionStorage'["student_email"] = sessionStorage["student_email"])
      /\ (~isAuthenticated /\ event'.kind = "navigate" => location' = "/")
      /\ (~isAuthenticated /\ isAuthenticated' => event'.kind = "success")
    ]_allVars

\* after a logout the visitor has opened a path and is on the login view,
\* the email of the session still stored
C29_Witness ==
  /\ event.kind = "navigate"
  /\ location = "/"
  /\ ~isAuthenticated
  /\ "student_email" \in DOMAIN sessionStorage
  /\ sessionStorage["student_email"] = DEMO_EMAIL

====
